---- MODULE Spec2Model ----
(***************************************************************************)
(* A model of edit_bench/evaluation.py: the generation stage               *)
(* (generate_files / generate_single_file), the test stage (test_edits,    *)
(* create_question_folders, run_tests / run_sandbox_test) and the result   *)
(* aggregation (parse_results); of the retrying generation function and   *)
(* the script of examples/generate_and_run_experiment.py; and of main() of *)
(* display_results_csv.py.                                                 *)
(***************************************************************************)
EXTENDS Integers, Sequences, FiniteSets, TLC

(***************************************************************************)
(* Bounds of the model.                                                    *)
(***************************************************************************)
\* number of tasks in the split (problem_id 1..NumQuestions)
NumQuestions == 2
\* how many times generate_files is invoked in one behaviour
MaxGenRuns == 2
\* largest max_workers of a ThreadPoolExecutor in the model; the pools of
\* the model have 1..PoolSize workers, which stand for a max_workers (8 by
\* default in generate_files, 4 in run_tests) that is smaller than the
\* number of jobs or not
PoolSize == 2
\* largest counts of a test_results.json handed to parse_results
MaxTotal == 5
MaxFailed == 1
MaxSkipped == 1

QIds == 1..NumQuestions

\* programming_language values of the dataset; "rust" stands for every
\* language outside the supported list
Langs == {"python", "javascript", "javascript/react", "rust"}
SupportedLangs == {"python", "javascript", "javascript/react"}

\* A text is a sequence of tokens: a fence is one token, as is a run of
\* whitespace ("ws") or any other chunk of text.
\* texts the generation function may return, and the absent file
GenTexts == {<<"code_a">>, <<"code_b">>}
NoFile == <<"<no file>">>

\* messages of the exceptions the generation function / open() may raise
GenErrors == {"api error"}
WriteErrors == {"io error"}
NoError == "<none>"

VARIABLES
    lang,          \* dataset: problem_id -> programming_language
    js_only,       \* the js_only argument of the running stage
    max_workers,   \* the max_workers of the pool of the running stage
    prompt_ok,     \* whether prompt_template.format(...) succeeds
    gen_files,     \* artifact store: problem_id -> content or NoFile
    gen_before,    \* artifact store when the current generate_files began
    gen_called,    \* tasks whose generation_function call was made this run
    gf_pc,         \* position of generate_files (the coordinator)
    gf_next,       \* next question of the submit loop
    gf_runs,       \* generate_files invocations so far
    futures_dict,  \* submitted jobs: set of problem ids
    job,           \* problem_id -> the job's position and result
    drained,       \* futures already yielded by as_completed
    errored_out, err_reason, skipped, successful,
    sb_exists,     \* TEST_DIR: whether the directory question_<d> exists
    sb_impl,       \* content of implementation1.* in question_<d>
    sb_outcome,    \* content of test_results.json in question_<d>
    sb_log,        \* content of test_execution.log in question_<d>
    sb_stdout,     \* content of test_stdout.txt in question_<d>
    out_file,      \* the output file named by the current invocation
    out_before,    \* that file when the current test_edits began
    sb_before,     \* the directories under TEST_DIR at that time
    te_pc,         \* position of test_edits
    te_effects,    \* what the current test_edits has done so far
    te_exc,        \* the exception that left test_edits, and where it arose
    cq_next,       \* next question of create_question_folders
    rt_next,       \* next question of the submit loop of run_tests
    t_futures,     \* jobs submitted by run_tests
    tjob,          \* problem_id -> the run_sandbox_test job
    t_drained,     \* futures already yielded by as_completed in run_tests
    t_errored_out, \* errored_out of run_tests
    pr_todo,       \* directories dir.glob("*") has still to yield
    results,       \* the results dict of parse_results
    gen_pc,        \* position of gpt_4o_mini_gen_function
    gen_lang,      \* its lang argument
    attempt,       \* the loop variable of its retry loop
    last_exception,
    calls,         \* what each call of the chat completion API did so far
    slept,         \* the delays handed to time.sleep so far
    gen_ret,       \* the value it returned, or the exception it raised
    cli_in,        \* display_results_csv: the directory and the arguments
    cli_out        \* what its main() returned or raised

genVars == <<prompt_ok, gen_before, gen_called, gf_pc, gf_next, gf_runs,
             futures_dict, job, drained, errored_out, err_reason, skipped,
             successful>>

sbVars == <<sb_exists, sb_impl, sb_outcome, sb_log, sb_stdout>>

teVars == <<out_before, sb_before, te_pc, te_effects, te_exc, cq_next, rt_next,
            t_futures, tjob, t_drained, t_errored_out>>

prVars == <<pr_todo, results>>

testVars == <<sbVars, out_file, teVars, prVars>>

retryVars == <<gen_pc, gen_lang, attempt, last_exception, calls, slept, gen_ret>>

cliVars == <<cli_in, cli_out>>

vars == <<lang, js_only, max_workers, gen_files, genVars, testVars, retryVars,
          cliVars>>

(***************************************************************************)
(* generate_single_file: one job of the generation pool.                   *)
(***************************************************************************)
NoJob == [pc |-> "none", status |-> "none", error |-> NoError, text |-> NoFile]

JobRunning(q) == job[q].pc \in {"check", "generate", "write"}

RunningJobs == {q \in QIds : JobRunning(q)}

\* JobStart by an executor that starts a thread for every queued job
JobStart_Unbounded(q) ==
    /\ job[q].pc = "queued"
    /\ job' = [job EXCEPT ![q].pc = "check"]
    /\ UNCHANGED <<lang, retryVars, cliVars, js_only, max_workers, gen_files, prompt_ok,
                   gen_before, gen_called, gf_pc, gf_next, gf_runs,
                   futures_dict, drained, errored_out, err_reason, skipped,
                   successful, testVars>>

\* a worker thread of the pool takes a queued job
JobStart(q) ==
    /\ job[q].pc = "queued"
    /\ Cardinality(RunningJobs) < max_workers
    /\ job' = [job EXCEPT ![q].pc = "check"]
    /\ UNCHANGED <<lang, retryVars, cliVars, js_only, max_workers, gen_files, prompt_ok, gen_before, gen_called,
                   gf_pc, gf_next, gf_runs, futures_dict, drained,
                   errored_out, err_reason, skipped, successful, testVars>>

\* JobCheckExists without the "skip if file already exists" test of line 27
JobCheckExists_NoSkip(q) ==
    /\ job[q].pc = "check"
    /\ job' = IF ~prompt_ok
              THEN [job EXCEPT ![q].pc = "done", ![q].status = "raised",
                               ![q].error = "KeyError"]
              ELSE [job EXCEPT ![q].pc = "generate"]
    /\ UNCHANGED <<lang, retryVars, cliVars, js_only, max_workers, gen_files, prompt_ok, gen_before, gen_called,
                   gf_pc, gf_next, gf_runs, futures_dict, drained,
                   errored_out, err_reason, skipped, successful, testVars>>

\* lines 23-36: the exists check, then the prompt formatting (outside the try)
JobCheckExists(q) ==
    /\ job[q].pc = "check"
    /\ job' = IF gen_files[q] # NoFile
              THEN [job EXCEPT ![q].pc = "done", ![q].status = "skipped"]
              ELSE IF ~prompt_ok
              THEN [job EXCEPT ![q].pc = "done", ![q].status = "raised",
                               ![q].error = "KeyError"]
              ELSE [job EXCEPT ![q].pc = "generate"]
    /\ UNCHANGED <<lang, retryVars, cliVars, js_only, max_workers, gen_files, prompt_ok, gen_before, gen_called,
                   gf_pc, gf_next, gf_runs, futures_dict, drained,
                   errored_out, err_reason, skipped, successful, testVars>>

\* JobCatch with the exception left to propagate out of the job
JobCatch_Reraise(q, msg) ==
    [job EXCEPT ![q].pc = "done", ![q].status = "raised", ![q].error = msg]

\* the except clause of lines 49-50
JobCatch(q, msg) ==
    [job EXCEPT ![q].pc = "done", ![q].status = "error", ![q].error = msg]

\* line 39: the call of generation_function, which returns a text or raises
JobGenerate(q) ==
    /\ job[q].pc = "generate"
    /\ gen_called' = gen_called \cup {q}
    /\ \/ \E t \in GenTexts :
            job' = [job EXCEPT ![q].pc = "write", ![q].text = t]
       \/ \E e \in GenErrors : job' = JobCatch(q, e)
    /\ UNCHANGED <<lang, retryVars, cliVars, js_only, max_workers, gen_files, prompt_ok, gen_before,
                   gf_pc, gf_next, gf_runs, futures_dict, drained,
                   errored_out, err_reason, skipped, successful, testVars>>

\* lines 42-47: write the artifact for a supported language
JobWrite(q) ==
    /\ job[q].pc = "write"
    /\ IF lang[q] \in SupportedLangs
       THEN \/ /\ gen_files' = [gen_files EXCEPT ![q] = job[q].text]
               /\ job' = [job EXCEPT ![q].pc = "done", ![q].status = "success"]
            \/ /\ \E e \in WriteErrors : job' = JobCatch(q, e)
               /\ UNCHANGED gen_files
       ELSE /\ job' = [job EXCEPT ![q].pc = "done",
                                  ![q].status = "unsupported_language"]
            /\ UNCHANGED gen_files
    /\ UNCHANGED <<lang, retryVars, cliVars, js_only, max_workers, prompt_ok, gen_before, gen_called,
                   gf_pc, gf_next, gf_runs, futures_dict, drained,
                   errored_out, err_reason, skipped, successful, testVars>>

(***************************************************************************)
(* generate_files: the coordinator.                                        *)
(***************************************************************************)
\* a call of generate_files(generation_function, prompt_file, gen_path, split,
\* js_only=..., max_workers=...): lines 53-68
GfCall ==
    /\ gf_pc \in {"idle", "returned", "raised"}
    /\ gf_runs < MaxGenRuns
    /\ gf_runs' = gf_runs + 1
    /\ js_only' \in BOOLEAN
    /\ max_workers' \in 1..PoolSize
    /\ prompt_ok' \in BOOLEAN
    /\ gf_pc' = "submit"
    /\ gf_next' = 1
    /\ futures_dict' = {}
    /\ job' = [q \in QIds |-> NoJob]
    /\ drained' = {}
    /\ errored_out' = <<>>
    /\ err_reason' = <<>>
    /\ skipped' = <<>>
    /\ successful' = <<>>
    /\ gen_before' = gen_files
    /\ gen_called' = {}
    /\ UNCHANGED <<lang, retryVars, cliVars, gen_files, testVars>>

\* lines 72-84: one iteration of the submit loop
GfSubmit ==
    /\ gf_pc = "submit"
    /\ gf_next <= NumQuestions
    /\ gf_next' = gf_next + 1
    /\ IF js_only /\ lang[gf_next] = "python"
       THEN UNCHANGED <<job, futures_dict>>
       ELSE /\ job' = [job EXCEPT ![gf_next].pc = "queued"]
            /\ futures_dict' = futures_dict \cup {gf_next}
    /\ UNCHANGED <<lang, retryVars, cliVars, js_only, max_workers, gen_files, prompt_ok, gen_before, gen_called,
                   gf_pc, gf_runs, drained,
                   errored_out, err_reason, skipped, successful, testVars>>

\* line 87: the submit loop is over, as_completed starts
GfStartDrain ==
    /\ gf_pc = "submit"
    /\ gf_next > NumQuestions
    /\ gf_pc' = "drain"
    /\ UNCHANGED <<lang, retryVars, cliVars, js_only, max_workers, gen_files, prompt_ok, gen_before, gen_called,
                   gf_next, gf_runs, futures_dict, job, drained,
                   errored_out, err_reason, skipped, successful, testVars>>

\* line 105: traceback.format_exc(exc) is called with the exception as its
\* `limit` argument; the comparison limit >= 0 raises TypeError
FormatExcRaises == TRUE

\* what the drain loop does with the result of a job that did not raise
Record_Overwrite(q) ==
    CASE job[q].status = "error" ->
              /\ errored_out' = <<q>>
              /\ err_reason' = <<job[q].error>>
              /\ UNCHANGED <<skipped, successful>>
         [] job[q].status = "skipped" ->
              /\ skipped' = <<q>>
              /\ UNCHANGED <<errored_out, err_reason, successful>>
         [] job[q].status = "success" ->
              /\ successful' = <<q>>
              /\ UNCHANGED <<errored_out, err_reason, skipped>>
         [] OTHER ->
              UNCHANGED <<errored_out, err_reason, skipped, successful>>

\* lines 96-102: the result of the job of q joins the list of its status
Record(q) ==
    CASE job[q].status = "error" ->
              /\ errored_out' = Append(errored_out, q)
              /\ err_reason' = Append(err_reason, job[q].error)
              /\ UNCHANGED <<skipped, successful>>
         [] job[q].status = "skipped" ->
              /\ skipped' = Append(skipped, q)
              /\ UNCHANGED <<errored_out, err_reason, successful>>
         [] job[q].status = "success" ->
              /\ successful' = Append(successful, q)
              /\ UNCHANGED <<errored_out, err_reason, skipped>>
         [] OTHER ->
              UNCHANGED <<errored_out, err_reason, skipped, successful>>

\* lines 93-105: the body of the drain loop for the future of q
GfDrain(q) ==
    /\ gf_pc = "drain"
    /\ q \in futures_dict \ drained
    /\ job[q].pc = "done"
    /\ drained' = drained \cup {q}
    /\ IF job[q].status = "raised"
       THEN \* future.result() re-raises; except Exception as exc:
            /\ errored_out' = Append(errored_out, q)
            /\ IF FormatExcRaises
               THEN /\ gf_pc' = "shutdown"
                    /\ UNCHANGED err_reason
               ELSE /\ err_reason' = Append(err_reason, job[q].error)
                    /\ UNCHANGED gf_pc
            /\ UNCHANGED <<skipped, successful>>
       ELSE /\ UNCHANGED gf_pc
            /\ Record(q)
    /\ UNCHANGED <<lang, retryVars, cliVars, js_only, max_workers, gen_files, prompt_ok, gen_before, gen_called,
                   gf_next, gf_runs, futures_dict, job, testVars>>

AllJobsDone == \A q \in futures_dict : job[q].pc = "done"

\* lines 106-118: every future was yielded; the with block ends, the summary
\* is printed and generate_files returns
GfReturn ==
    /\ gf_pc = "drain"
    /\ drained = futures_dict
    /\ gf_pc' = "returned"
    /\ UNCHANGED <<lang, retryVars, cliVars, js_only, max_workers, gen_files, prompt_ok, gen_before, gen_called,
                   gf_next, gf_runs, futures_dict, job, drained,
                   errored_out, err_reason, skipped, successful, testVars>>

\* line 70: an exception leaves the with block: ThreadPoolExecutor.__exit__
\* waits for every submitted job, then the exception leaves generate_files
GfShutdown ==
    /\ gf_pc = "shutdown"
    /\ AllJobsDone
    /\ gf_pc' = "raised"
    /\ UNCHANGED <<lang, retryVars, cliVars, js_only, max_workers, gen_files, prompt_ok, gen_before, gen_called,
                   gf_next, gf_runs, futures_dict, job, drained,
                   errored_out, err_reason, skipped, successful, testVars>>

(***************************************************************************)
(* Rational numbers <<numerator, denominator>> in lowest terms stand for   *)
(* the floats of parse_results.                                            *)
(***************************************************************************)
RECURSIVE GCD(_, _)
GCD(a, b) == IF b = 0 THEN a ELSE GCD(b, a % b)

Rat(n, d) == LET g == GCD(n, d) IN <<n \div g, d \div g>>

Zero == Rat(0, 1)
One == Rat(1, 1)

AddRat(a, b) == Rat(a[1] * b[2] + b[1] * a[2], a[2] * b[2])

\* a / n for an integer n > 0
DivRat(a, n) == Rat(a[1], a[2] * n)

LeqRat(a, b) == a[1] * b[2] <= b[1] * a[2]

(***************************************************************************)
(* The sandbox root TEST_DIR.                                              *)
(***************************************************************************)
\* directories under TEST_DIR: question_<q> for the tasks of the split, and
\* question_0, the sandbox of a task of another split
OtherSplitDirs == {0}
Dirs == OtherSplitDirs \cup QIds

\* test_results.json
Counts(p, f, s, t) ==
    [kind |-> "counts", passed |-> p, failed |-> f, skipped |-> s, total |-> t]
NoOutcome == [kind |-> "absent", passed |-> 0, failed |-> 0, skipped |-> 0, total |-> 0]
BadJson == [kind |-> "badjson", passed |-> 0, failed |-> 0, skipped |-> 0, total |-> 0]
\* {"results": [...]}: results is not a mapping
NotMapping == [kind |-> "notmap", passed |-> 0, failed |-> 0, skipped |-> 0, total |-> 0]
\* valid JSON without results / implementation1 / passed / total / skipped
NoKey == [kind |-> "nokey", passed |-> 0, failed |-> 0, skipped |-> 0, total |-> 0]

\* what a test command may leave in test_results.json in the test stage
TestOutcomes == {Counts(1, 0, 0, 1), Counts(0, 1, 0, 1)}

\* artifacts test_edits may find in gen_path
FencedPython == <<"intro", "~~~python", "ws", "code_a", "ws", "~~~", "mid",
                  "~~~python", "code_b", "~~~", "outro">>
TestArtifacts == {FencedPython}

(***************************************************************************)
(* Fence unwrapping: text.split(FENCE + tag)[-1].split(FENCE)[0].strip(),      *)
(* where FENCE is the three-backquote mark, written "~~~" in the tokens.    *)
(***************************************************************************)
FenceTokens == {"~~~", "~~~python", "~~~javascript", "~~~javascript/react",
                "~~~rust"}

FenceTag(l) == IF l = "python" THEN "~~~python" ELSE "~~~javascript"

\* s.split(tag)[-1]: what follows the last occurrence of tag, or all of s
AfterLast(s, tag) ==
    LET occ == {i \in 1..Len(s) : s[i] = tag}
    IN  IF occ = {} THEN s
        ELSE LET last == CHOOSE i \in occ : \A j \in occ : j <= i
             IN  SubSeq(s, last + 1, Len(s))

\* s.split(FENCE)[0]: what precedes the first token that starts with a fence
BeforeFirstFence(s) ==
    LET occ == {i \in 1..Len(s) : s[i] \in FenceTokens}
    IN  IF occ = {} THEN s
        ELSE LET first == CHOOSE i \in occ : \A j \in occ : i <= j
             IN  SubSeq(s, 1, first - 1)

\* s.strip()
Strip(s) ==
    LET keep == {i \in 1..Len(s) : s[i] # "ws"}
    IN  IF keep = {} THEN <<>>
        ELSE LET lo == CHOOSE i \in keep : \A j \in keep : i <= j
                 hi == CHOOSE i \in keep : \A j \in keep : j <= i
             IN  SubSeq(s, lo, hi)

Unwrap(text, l) == Strip(BeforeFirstFence(AfterLast(text, FenceTag(l))))

(***************************************************************************)
(* parse_results                                                           *)
(***************************************************************************)
Key(d) == <<"question", d>>
PassRateKey == <<"pass_rate", 0>>
AverageKey == <<"average_test_rate", 0>>

NoOutput == [exists |-> FALSE, data |-> <<>>]

\* ScoreOf with the denominator total instead of total + skipped
ScoreOf_TotalOnly(o) ==
    CASE o.kind = "absent" -> [raised |-> "none", score |-> Zero]
      [] o.kind = "nokey" -> [raised |-> "none", score |-> Zero]
      [] o.kind = "badjson" -> [raised |-> "JSONDecodeError", score |-> Zero]
      [] o.kind = "notmap" -> [raised |-> "TypeError", score |-> Zero]
      [] o.kind = "counts" ->
            IF o.total = 0
            THEN [raised |-> "ZeroDivisionError", score |-> Zero]
            ELSE [raised |-> "none", score |-> Rat(o.passed, o.total)]

\* ScoreOf without the except FileNotFoundError clause of lines 224-227
ScoreOf_NoFileFallback(o) ==
    CASE o.kind = "absent" -> [raised |-> "FileNotFoundError", score |-> Zero]
      [] o.kind = "nokey" -> [raised |-> "none", score |-> Zero]
      [] o.kind = "badjson" -> [raised |-> "JSONDecodeError", score |-> Zero]
      [] o.kind = "notmap" -> [raised |-> "TypeError", score |-> Zero]
      [] o.kind = "counts" ->
            IF o.total + o.skipped = 0
            THEN [raised |-> "ZeroDivisionError", score |-> Zero]
            ELSE [raised |-> "none",
                  score |-> Rat(o.passed, o.total + o.skipped)]

\* what lines 216-222 do with the test_results.json of one directory:
\* the score, the fallback of the two except clauses, or an exception that
\* leaves parse_results
ScoreOf(o) ==
    CASE o.kind = "absent" -> [raised |-> "none", score |-> Zero]
      [] o.kind = "nokey" -> [raised |-> "none", score |-> Zero]
      [] o.kind = "badjson" -> [raised |-> "JSONDecodeError", score |-> Zero]
      [] o.kind = "notmap" -> [raised |-> "TypeError", score |-> Zero]
      [] o.kind = "counts" ->
            IF o.total + o.skipped = 0
            THEN [raised |-> "ZeroDivisionError", score |-> Zero]
            ELSE [raised |-> "none",
                  score |-> Rat(o.passed, o.total + o.skipped)]

\* lines 212-231: one iteration of the loop over dir.glob("*")
PrScan(d) ==
    /\ te_pc = "parse"
    /\ d \in pr_todo
    /\ LET r == ScoreOf(sb_outcome[d])
       IN  IF r.raised = "none"
           THEN /\ results' = (Key(d) :> r.score) @@ results
                /\ pr_todo' = pr_todo \ {d}
                /\ UNCHANGED <<te_pc, te_exc>>
           ELSE /\ te_pc' = "raised"
                /\ te_exc' = [type |-> r.raised, at |-> d]
                /\ UNCHANGED <<results, pr_todo>>
    /\ te_effects' = te_effects \cup {"parse"}
    /\ UNCHANGED <<lang, retryVars, cliVars, js_only, max_workers, gen_files, genVars, sbVars, out_file,
                   out_before, sb_before, cq_next, rt_next, t_futures, tjob,
                   t_drained, t_errored_out>>

RECURSIVE SumRat(_, _)
SumRat(f, ks) ==
    IF ks = {} THEN Zero
    ELSE LET k == CHOOSE x \in ks : TRUE
         IN  AddRat(f[k], SumRat(f, ks \ {k}))

\* n_tests taken after the two scalar keys were added to the dict
NTests_WithScalars(res) == Cardinality(DOMAIN res) + Cardinality({PassRateKey, AverageKey})

\* lines 233-238
NTests(res) == Cardinality(DOMAIN res)
NumPerfect(res) == Cardinality({k \in DOMAIN res : res[k] = One})
Summary(res) ==
    (PassRateKey :> Rat(NumPerfect(res), NTests(res)))
    @@ (AverageKey :> DivRat(SumRat(res, DOMAIN res), NTests(res)))
    @@ res

\* lines 233-249: the statistics and the output file
PrFinish ==
    /\ te_pc = "parse"
    /\ pr_todo = {}
    /\ IF NTests(results) = 0
       THEN \* line 236: ZeroDivisionError
            /\ te_pc' = "raised"
            /\ te_exc' = [type |-> "ZeroDivisionError", at |-> -1]
            /\ UNCHANGED <<results, out_file>>
       ELSE /\ UNCHANGED te_exc
            /\ results' = Summary(results)
            /\ out_file' = [exists |-> TRUE, data |-> results']
            /\ te_pc' = "returned"
    /\ te_effects' = te_effects \cup {"parse"}
    /\ UNCHANGED <<lang, retryVars, cliVars, js_only, max_workers, gen_files, genVars, sbVars,
                   out_before, sb_before, cq_next, rt_next, t_futures, tjob,
                   t_drained, t_errored_out, pr_todo>>

\* output files an earlier run of parse_results may have left: one with an
\* entry for every task of the split, one with entries of another split only
FullOutput == [exists |-> TRUE, data |-> Summary([k \in {Key(q) : q \in QIds} |-> One])]
OtherOutput == [exists |-> TRUE, data |-> Summary([k \in {Key(d) : d \in OtherSplitDirs} |-> One])]

(***************************************************************************)
(* test_edits and create_question_folders                                  *)
(***************************************************************************)
\* a job: its position, the commands that have completed (command_outputs),
\* the first of them that exited nonzero (0: none), the exception caught and
\* the value returned
NoTJob == [pc |-> "none", ran |-> <<>>, nonzero |-> 0, exc |-> "none",
           result |-> "none"]

NoException == [type |-> "none", at |-> -1]

\* the test of line 129 with the comparison turned around
AlreadyRun_Inverted(len, n) == 10 * len < 9 * n

\* line 129: len(data) > 0.9 * len(questions)
AlreadyRun(len, n) == 10 * len > 9 * n

\* lines 123-131: a call test_edits(gen_path, split, output_file, js_only);
\* run_tests will build its pool with its default max_workers
TeCall ==
    /\ te_pc = "idle"
    /\ js_only' \in BOOLEAN
    /\ max_workers' \in 1..PoolSize
    /\ out_before' = out_file
    /\ sb_before' = {d \in Dirs : sb_exists[d]}
    /\ te_pc' = IF /\ out_file.exists
                   /\ AlreadyRun(Cardinality(DOMAIN out_file.data), NumQuestions)
                THEN "skipped"
                ELSE "create"
    /\ te_effects' = {}
    /\ te_exc' = NoException
    /\ cq_next' = 1
    /\ rt_next' = 1
    /\ t_futures' = {}
    /\ tjob' = [q \in QIds |-> NoTJob]
    /\ t_drained' = {}
    /\ t_errored_out' = <<>>
    /\ pr_todo' = {}
    /\ results' = <<>>
    /\ UNCHANGED <<lang, retryVars, cliVars, gen_files, genVars, sbVars, out_file>>

\* lines 142-206: one iteration of the loop of create_question_folders
CqStep ==
    /\ te_pc = "create"
    /\ cq_next <= NumQuestions
    /\ LET q == cq_next
       IN  IF lang[q] = "python" /\ js_only
           THEN /\ cq_next' = cq_next + 1
                /\ UNCHANGED <<sb_exists, sb_impl, te_pc, te_effects, te_exc>>
           ELSE /\ sb_exists' = [sb_exists EXCEPT ![q] = TRUE]
                /\ te_effects' = te_effects \cup {"create"}
                /\ IF gen_files[q] = NoFile
                   THEN \* line 151: raise FileNotFoundError
                        /\ te_pc' = "raised"
                        /\ te_exc' = [type |-> "FileNotFoundError", at |-> q]
                        /\ UNCHANGED <<cq_next, sb_impl>>
                   ELSE /\ cq_next' = cq_next + 1
                        /\ UNCHANGED <<te_pc, te_exc>>
                        /\ IF lang[q] \in SupportedLangs
                           THEN sb_impl' = [sb_impl EXCEPT
                                               ![q] = Unwrap(gen_files[q], lang[q])]
                           ELSE UNCHANGED sb_impl
    /\ UNCHANGED <<lang, retryVars, cliVars, js_only, max_workers, gen_files, genVars, sb_outcome, sb_log,
                   sb_stdout, out_file, out_before, sb_before, rt_next,
                   t_futures, tjob, t_drained, t_errored_out, prVars>>

\* line 133: create_question_folders returned, run_tests begins
CqReturn ==
    /\ te_pc = "create"
    /\ cq_next > NumQuestions
    /\ te_pc' = "submit"
    /\ UNCHANGED <<lang, retryVars, cliVars, js_only, max_workers, gen_files, genVars, sbVars, out_file,
                   out_before, sb_before, te_exc, te_effects, cq_next, rt_next,
                   t_futures, tjob, t_drained, t_errored_out, prVars>>

(***************************************************************************)
(* run_sandbox_test: one job of the test pool                              *)
(***************************************************************************)
PythonCommands == <<"uv venv", "uv pip install", "pytest", "rm -rf .venv">>
JavascriptCommands == <<"npm install", "sleep 1", "npm test">>

\* lines 288-291
CommandsOf(l) == IF l = "python" THEN PythonCommands ELSE JavascriptCommands

\* the commands whose argv holds the word "install"
InstallCommands == {"uv pip install", "npm install"}
\* the commands that run the test harness, which writes test_results.json
HarnessCommands == {"pytest", "npm test"}

TJobRunning(q) == tjob[q].pc \in {"open", "cmd", "finish"}

RunningTJobs == {q \in QIds : TJobRunning(q)}

\* a worker thread of the pool takes a queued job
TStart(q) ==
    /\ tjob[q].pc = "queued"
    /\ Cardinality(RunningTJobs) < max_workers
    /\ tjob' = [tjob EXCEPT ![q].pc = "open"]
    /\ UNCHANGED <<lang, retryVars, cliVars, js_only, max_workers, gen_files, genVars, sbVars, out_file,
                   out_before, sb_before, te_exc, te_pc, te_effects, cq_next, rt_next,
                   t_futures, t_drained, t_errored_out, prVars>>

\* the job returns: its locals are gone, the future holds the value
TReturn(q, exc, value) ==
    [tjob EXCEPT ![q] = [pc |-> "done", ran |-> <<>>, nonzero |-> 0,
                         exc |-> exc, result |-> value]]

\* TCatch that notes the exception of a command and goes on with the next
TCatch_Resume(q, exc, cmd, log, writable) ==
    /\ sb_log' = IF writable
                 THEN [sb_log EXCEPT ![q] = Append(log, "EXCEPTION OCCURRED")]
                 ELSE sb_log
    /\ tjob' = IF cmd = "none"
               THEN TReturn(q, exc, "failed running sandbox")
               ELSE [tjob EXCEPT
                       ![q].exc = exc,
                       ![q].ran = Append(@, cmd),
                       ![q].pc = IF Len(tjob[q].ran) + 1 = Len(CommandsOf(lang[q]))
                                 THEN "finish" ELSE "cmd"]

\* TCatch that logs the exception and lets it leave the job
TCatch_Propagate(q, exc, cmd, log, writable) ==
    /\ sb_log' = IF writable
                 THEN [sb_log EXCEPT ![q] = Append(log, "EXCEPTION OCCURRED")]
                 ELSE sb_log
    /\ tjob' = TReturn(q, exc, "raised")

\* lines 334-347: the except clause: the message is appended to the log when
\* the log can be opened, and a failure message is returned
TCatch(q, exc, cmd, log, writable) ==
    /\ sb_log' = IF writable
                 THEN [sb_log EXCEPT ![q] = Append(log, "EXCEPTION OCCURRED")]
                 ELSE sb_log
    /\ tjob' = TReturn(q, exc, IF exc = "TimeoutExpired" /\ cmd \in InstallCommands
                                THEN "Error installing dependencies"
                                ELSE "failed running sandbox")

\* lines 278-294: the log is opened and the command list is chosen
TOpenLog(q) ==
    /\ tjob[q].pc = "open"
    /\ \/ \* open(test_log_file, "w") raises
          /\ TCatch(q, "OSError", "none", sb_log[q], FALSE)
       \/ /\ sb_exists[q]
          /\ IF lang[q] \in SupportedLangs
             THEN /\ sb_log' = [sb_log EXCEPT ![q] = <<"Starting test">>]
                  /\ tjob' = [tjob EXCEPT ![q].pc = "cmd"]
             ELSE \* line 293: commands is not bound
                  TCatch(q, "UnboundLocalError", "none", <<"Starting test">>, TRUE)
    /\ UNCHANGED <<lang, retryVars, cliVars, js_only, max_workers, gen_files, genVars, sb_exists, sb_impl,
                   sb_outcome, sb_stdout, out_file, out_before, sb_before, te_exc, te_pc,
                   te_effects, cq_next, rt_next, t_futures, t_drained,
                   t_errored_out, prVars>>

\* Completed with subprocess.run(check=True): a nonzero return code raises
\* CalledProcessError
Completed_CheckTrue(q, cmd, i, cmds, rc) ==
    IF rc # 0
    THEN TCatch(q, "CalledProcessError", cmd, sb_log[q], TRUE)
    ELSE /\ tjob' = [tjob EXCEPT
                       ![q].ran = Append(@, cmd),
                       ![q].pc = IF i = Len(cmds) THEN "finish" ELSE "cmd"]
         /\ UNCHANGED sb_log

\* lines 302-314: subprocess.run(check=False) returned with the return code
\* rc: the result joins command_outputs and the loop goes on
Completed(q, cmd, i, cmds, rc) ==
    /\ tjob' = [tjob EXCEPT
                  ![q].ran = Append(@, cmd),
                  ![q].nonzero = IF @ = 0 /\ rc # 0 THEN i ELSE @,
                  ![q].pc = IF i = Len(cmds) THEN "finish" ELSE "cmd"]
    /\ UNCHANGED sb_log

\* lines 298-314: subprocess.run of the next command: it exits with a return
\* code, times out, or cannot be started; a harness command may have written
\* test_results.json by then. The log lines of each command are left out of
\* sb_log, which keeps the start, exception and completion lines.
TRunCommand(q) ==
    /\ tjob[q].pc = "cmd"
    /\ LET cmds == CommandsOf(lang[q])
           i == Len(tjob[q].ran) + 1
           cmd == cmds[i]
       IN  /\ \/ UNCHANGED sb_outcome
              \/ /\ cmd \in HarnessCommands
                 /\ \E o \in TestOutcomes :
                       sb_outcome' = [sb_outcome EXCEPT ![q] = o]
           /\ \/ \E rc \in {0, 1} : Completed(q, cmd, i, cmds, rc)
              \/ TCatch(q, "TimeoutExpired", cmd, sb_log[q], TRUE)
              \/ /\ UNCHANGED sb_outcome
                 /\ TCatch(q, "FileNotFoundError", cmd, sb_log[q], TRUE)
    /\ te_effects' = te_effects \cup {"pipeline"}
    /\ UNCHANGED <<lang, retryVars, cliVars, js_only, max_workers, gen_files, genVars, sb_exists, sb_impl,
                   sb_stdout, out_file, out_before, sb_before, te_exc, te_pc,
                   cq_next, rt_next, t_futures, t_drained,
                   t_errored_out, prVars>>

\* lines 316-332: the transcript is written and the job returns
TFinish(q) ==
    /\ tjob[q].pc = "finish"
    /\ sb_stdout' = [sb_stdout EXCEPT ![q] = tjob[q].ran]
    /\ sb_log' = [sb_log EXCEPT ![q] = Append(@, "Test completed successfully")]
    /\ tjob' = TReturn(q, "none", "Ran tests")
    /\ UNCHANGED <<lang, retryVars, cliVars, js_only, max_workers, gen_files, genVars, sb_exists, sb_impl,
                   sb_outcome, out_file, out_before, sb_before, te_exc, te_pc,
                   te_effects, cq_next, rt_next, t_futures, t_drained,
                   t_errored_out, prVars>>

(***************************************************************************)
(* run_tests: the coordinator of the test pool                             *)
(***************************************************************************)
\* lines 358-373: one iteration of the submit loop
RtSubmit ==
    /\ te_pc = "submit"
    /\ rt_next <= NumQuestions
    /\ rt_next' = rt_next + 1
    /\ IF js_only /\ lang[rt_next] = "python"
       THEN UNCHANGED <<tjob, t_futures>>
       ELSE /\ tjob' = [tjob EXCEPT ![rt_next].pc = "queued"]
            /\ t_futures' = t_futures \cup {rt_next}
    /\ UNCHANGED <<lang, retryVars, cliVars, js_only, max_workers, gen_files, genVars, sbVars, out_file,
                   out_before, sb_before, te_exc, te_pc, te_effects, cq_next,
                   t_drained, t_errored_out, prVars>>

\* line 376: the submit loop is over, as_completed starts
RtStartDrain ==
    /\ te_pc = "submit"
    /\ rt_next > NumQuestions
    /\ te_pc' = "drain"
    /\ UNCHANGED <<lang, retryVars, cliVars, js_only, max_workers, gen_files, genVars, sbVars, out_file,
                   out_before, sb_before, te_exc, te_effects, cq_next, rt_next,
                   t_futures, tjob, t_drained, t_errored_out, prVars>>

\* lines 382-387: the body of the drain loop for the future of q
RtDrain(q) ==
    /\ te_pc = "drain"
    /\ q \in t_futures \ t_drained
    /\ tjob[q].pc = "done"
    /\ t_drained' = t_drained \cup {q}
    /\ t_errored_out' = IF tjob[q].result = "raised"
                        THEN Append(t_errored_out, q)
                        ELSE t_errored_out
    /\ UNCHANGED <<lang, retryVars, cliVars, js_only, max_workers, gen_files, genVars, sbVars, out_file,
                   out_before, sb_before, te_exc, te_pc, te_effects, cq_next, rt_next,
                   t_futures, tjob, prVars>>

\* RtReturn that leaves the drain loop while futures are still pending
RtReturn_NoWait ==
    /\ te_pc = "drain"
    /\ te_pc' = "parse"
    /\ pr_todo' = {d \in Dirs : sb_exists[d]}
    /\ results' = <<>>
    /\ UNCHANGED <<lang, retryVars, cliVars, js_only, max_workers, gen_files, genVars,
                   sbVars, out_file, out_before, sb_before, te_exc,
                   te_effects, cq_next, rt_next, t_futures, tjob, t_drained,
                   t_errored_out>>

\* RtReturn with parse_results listing the sandboxes of the split only
RtReturn_SplitOnly ==
    /\ te_pc = "drain"
    /\ t_drained = t_futures
    /\ te_pc' = "parse"
    /\ pr_todo' = {d \in QIds : sb_exists[d]}
    /\ results' = <<>>
    /\ UNCHANGED <<lang, retryVars, cliVars, js_only, max_workers, gen_files, genVars, sbVars, out_file,
                   out_before, sb_before, te_exc, te_effects, cq_next, rt_next,
                   t_futures, tjob, t_drained, t_errored_out>>

\* lines 390-393 and 134, 209-212: run_tests returns and parse_results
\* lists the sandbox root
RtReturn ==
    /\ te_pc = "drain"
    /\ t_drained = t_futures
    /\ te_pc' = "parse"
    /\ pr_todo' = {d \in Dirs : sb_exists[d]}
    /\ results' = <<>>
    /\ UNCHANGED <<lang, retryVars, cliVars, js_only, max_workers, gen_files, genVars, sbVars, out_file,
                   out_before, sb_before, te_exc, te_effects, cq_next, rt_next,
                   t_futures, tjob, t_drained, t_errored_out>>

(***************************************************************************)
(* gpt_4o_mini_gen_function of examples/generate_and_run_experiment.py:    *)
(* a generation function that retries the call of the chat completion API. *)
(***************************************************************************)
max_retries == 5

\* exceptions of client.chat.completions.create, and the texts it may return
ApiErrors == {"RateLimitError", "APIConnectionError"}
ApiTexts == {<<"intro", "~~~python", "ws", "code_a", "ws", "~~~", "outro">>,
             <<"code_b", "ws">>}

\* the opening fence of line 32, made of the fence and the lang argument
LangTag(l) ==
    CASE l = "python" -> "~~~python"
      [] l = "javascript" -> "~~~javascript"
      [] l = "javascript/react" -> "~~~javascript/react"
      [] OTHER -> "~~~rust"

\* line 32
GenUnwrap(text, l) == Strip(BeforeFirstFence(AfterLast(text, LangTag(l))))

RECURSIVE Pow2(_)
Pow2(n) == IF n = 0 THEN 1 ELSE 2 * Pow2(n - 1)

NoReturn == [kind |-> "none", value |-> NoFile]

\* lines 13-20: a call gpt_4o_mini_gen_function(prompt, lang)
GenFnCall ==
    /\ gen_pc = "idle"
    /\ gen_lang' \in Langs
    /\ attempt' = 0
    /\ last_exception' = NoError
    /\ calls' = <<>>
    /\ slept' = <<>>
    /\ gen_ret' = NoReturn
    /\ gen_pc' = "loop"
    /\ UNCHANGED <<lang, cliVars, js_only, max_workers, gen_files, genVars, testVars>>

\* Caught that sleeps after every failed attempt, the last one too
Caught_SleepsAfterLast(e) ==
    /\ last_exception' = e
    /\ slept' = Append(slept, Pow2(attempt))

\* Caught that keeps the exception of the first failed attempt
Caught_KeepsFirst(e) ==
    /\ last_exception' = IF last_exception = NoError THEN e ELSE last_exception
    /\ slept' = IF attempt < max_retries - 1
                THEN Append(slept, Pow2(attempt))
                ELSE slept

\* lines 34-41: the except clause of the retry loop
Caught(e) ==
    /\ last_exception' = e
    /\ slept' = IF attempt < max_retries - 1
                THEN Append(slept, Pow2(attempt))
                ELSE slept

\* lines 20-41: one iteration of for attempt in range(max_retries)
GenFnAttempt ==
    /\ gen_pc = "loop"
    /\ attempt < max_retries
    /\ \/ \E t \in ApiTexts :
             /\ calls' = Append(calls, "ok")
             /\ gen_ret' = [kind |-> "returned", value |-> GenUnwrap(t, gen_lang)]
             /\ gen_pc' = "returned"
             /\ UNCHANGED <<attempt, last_exception, slept>>
       \/ \E e \in ApiErrors :
             /\ calls' = Append(calls, e)
             /\ Caught(e)
             /\ attempt' = attempt + 1
             /\ UNCHANGED <<gen_pc, gen_ret>>
    /\ UNCHANGED <<lang, cliVars, js_only, max_workers, gen_files, gen_lang, genVars,
                   testVars>>

\* lines 43-45: the loop is exhausted: raise last_exception
GenFnRaise ==
    /\ gen_pc = "loop"
    /\ attempt = max_retries
    /\ gen_ret' = [kind |-> "raised", value |-> <<last_exception>>]
    /\ gen_pc' = "raised"
    /\ UNCHANGED <<lang, cliVars, js_only, max_workers, gen_files, gen_lang, attempt,
                   last_exception, calls, slept, genVars, testVars>>

(***************************************************************************)
(* display_results_csv.py: the command line tool that shows result files.  *)
(***************************************************************************)
\* the stems of the *.json files of the results directory
Models == {"m1", "m2"}

\* what a result file may hold: a mapping written by parse_results, with
\* entries of the split or of another split only, or the empty mapping; a
\* JSON list; or text that is not JSON
MappingFile(data) == [kind |-> "dict", data |-> data]
ListFile == [kind |-> "list", data |-> <<>>]
BadJsonFile == [kind |-> "badjson", data |-> <<>>]
ResultFiles == {MappingFile(FullOutput.data), MappingFile(OtherOutput.data),
                MappingFile(<<>>), ListFile, BadJsonFile}

Returned(code) == [kind |-> "returned", code |-> code, exc |-> "none"]
Raised(exc) == [kind |-> "raised", code |-> -1, exc |-> exc]
NoExit == [kind |-> "none", code |-> -1, exc |-> "none"]

NoArgs == [dir |-> "missing", files |-> <<>>, csv |-> FALSE, granular |-> FALSE,
           split |-> "none", difficulty |-> FALSE]

\* lines 86-120: the question keys of the loaded results, those of the split
\* only when --split is given; model_data.keys() needs a mapping
KeysNeedMapping(loaded) == \E m \in DOMAIN loaded : loaded[m].kind # "dict"

GetQuestionIds(loaded, split) ==
    {k \in UNION {DOMAIN loaded[m].data : m \in DOMAIN loaded} :
        /\ k[1] = "question"
        /\ split # "none" => k[2] \in QIds}

\* lines 258-331: display_granular_table; in table mode line 295 takes the
\* max of the lengths of the question ids
DisplayGranular(loaded, csv, split) ==
    IF KeysNeedMapping(loaded) THEN Raised("AttributeError")
    ELSE IF ~csv /\ GetQuestionIds(loaded, split) = {} THEN Raised("ValueError")
    ELSE Returned(0)

\* lines 130-255: display_summary_table
DisplaySummary(loaded, csv, split, difficulty) ==
    IF KeysNeedMapping(loaded) THEN Raised("AttributeError")
    ELSE Returned(0)

\* lines 395-430: main() after the arguments were parsed
MainResult(a) ==
    IF a.dir = "missing" THEN Returned(1)
    ELSE IF a.dir = "file" THEN Returned(1)
    ELSE IF \E m \in DOMAIN a.files : a.files[m].kind = "badjson"
         THEN Raised("JSONDecodeError")
    ELSE IF DOMAIN a.files = {} THEN Returned(1)
    ELSE IF a.granular THEN DisplayGranular(a.files, a.csv, a.split)
    ELSE DisplaySummary(a.files, a.csv, a.split, a.difficulty)

\* line 434: main() runs
CliMain ==
    /\ cli_out = NoExit
    /\ cli_out' = MainResult(cli_in)
    /\ UNCHANGED <<lang, js_only, max_workers, gen_files, genVars, testVars,
                   retryVars, cli_in>>

(***************************************************************************)
(* Initial states and specifications                                       *)
(***************************************************************************)
GenInit ==
    /\ prompt_ok = TRUE
    /\ gen_before = gen_files
    /\ gen_called = {}
    /\ gf_pc = "idle"
    /\ gf_next = 1
    /\ gf_runs = 0
    /\ futures_dict = {}
    /\ job = [q \in QIds |-> NoJob]
    /\ drained = {}
    /\ errored_out = <<>>
    /\ err_reason = <<>>
    /\ skipped = <<>>
    /\ successful = <<>>

\* display_results_csv before any run
CliIdle ==
    /\ cli_in = NoArgs
    /\ cli_out = NoExit

\* gpt_4o_mini_gen_function before any call
RetryIdle ==
    /\ gen_pc = "idle"
    /\ gen_lang = "python"
    /\ attempt = 0
    /\ last_exception = NoError
    /\ calls = <<>>
    /\ slept = <<>>
    /\ gen_ret = NoReturn

DataInit ==
    /\ lang \in [QIds -> Langs]
    /\ js_only = FALSE
    /\ max_workers = PoolSize
    /\ RetryIdle
    /\ CliIdle
    /\ gen_files \in [QIds -> GenTexts \cup {NoFile}]

\* the test stage before any call of test_edits
TestIdle ==
    /\ out_before = NoOutput
    /\ te_pc = "idle"
    /\ te_effects = {}
    /\ te_exc = NoException
    /\ cq_next = 1
    /\ rt_next = 1
    /\ t_futures = {}
    /\ tjob = [q \in QIds |-> NoTJob]
    /\ t_drained = {}
    /\ t_errored_out = <<>>
    /\ pr_todo = {}
    /\ results = <<>>

EmptySandboxes ==
    /\ sb_exists = [d \in Dirs |-> FALSE]
    /\ sb_impl = [d \in Dirs |-> NoFile]
    /\ sb_outcome = [d \in Dirs |-> NoOutcome]
    /\ sb_log = [d \in Dirs |-> NoFile]
    /\ sb_stdout = [d \in Dirs |-> NoFile]

Init ==
    /\ DataInit
    /\ GenInit
    /\ TestIdle
    /\ out_file = NoOutput
    /\ EmptySandboxes
    /\ sb_before = {}

\* Sandboxes an earlier run left under TEST_DIR: the directories in ds, each
\* with its implementation, log, transcript and a test_results.json
StaleOutcome == Counts(1, 0, 0, 1)
LeftBy(ds, o) ==
    /\ sb_exists = [d \in Dirs |-> d \in ds]
    /\ sb_impl = [d \in Dirs |-> IF d \in ds THEN <<"code_old">> ELSE NoFile]
    /\ sb_outcome = [d \in Dirs |-> IF d \in ds THEN o ELSE NoOutcome]
    /\ sb_log = [d \in Dirs |->
                    IF d \in ds THEN <<"Starting test", "Test completed successfully">>
                    ELSE NoFile]
    /\ sb_stdout = [d \in Dirs |-> IF d \in ds THEN <<"old transcript">> ELSE NoFile]

\* the languages of the tasks of the split under test
TestLangs == Langs

\* One call of test_edits, with any artifacts in gen_path, an output file
\* that is absent or left by an earlier run, and a sandbox root that is
\* empty or holds what an earlier run left: the sandbox of a task of
\* another split, or those and the sandboxes of this split.
TestInit ==
    /\ lang \in [QIds -> TestLangs]
    /\ js_only = FALSE
    /\ max_workers = PoolSize
    /\ RetryIdle
    /\ CliIdle
    /\ gen_files \in [QIds -> TestArtifacts \cup {NoFile}]
    /\ GenInit
    /\ TestIdle
    /\ out_file \in {NoOutput, FullOutput, OtherOutput}
    /\ \E ds \in {{}, OtherSplitDirs, Dirs} :
          \E o \in {NoOutcome, StaleOutcome} : LeftBy(ds, o)
    /\ sb_before = {d \in Dirs : sb_exists[d]}

TestNext ==
    \/ TeCall
    \/ CqStep
    \/ CqReturn
    \/ RtSubmit
    \/ RtStartDrain
    \/ \E q \in QIds : TStart(q)
    \/ \E q \in QIds : TOpenLog(q)
    \/ \E q \in QIds : TRunCommand(q)
    \/ \E q \in QIds : TFinish(q)
    \/ \E q \in QIds : RtDrain(q)
    \/ RtReturn
    \/ \E d \in Dirs : PrScan(d)
    \/ PrFinish

SpecTest == TestInit /\ [][TestNext]_vars

\* the records {"results": {"implementation1": {passed, failed, skipped,
\* total}}} with passed <= total
CountRecords ==
    {Counts(p, f, k, t) : p \in 0..MaxTotal, f \in 0..MaxFailed,
                          k \in 0..MaxSkipped, t \in 0..MaxTotal}
WellFormed == {o \in CountRecords : o.passed <= o.total}

\* any test_results.json of the first sandbox; a few for the others
ParseOutcomes == {NoOutcome, NoKey, BadJson, NotMapping} \cup WellFormed
FewOutcomes == {NoOutcome, BadJson, Counts(1, 0, 0, 1), Counts(1, 1, 0, 2)}

\* parse_results(output_file) over any sandbox root
ParseInit ==
    /\ lang = [q \in QIds |-> "python"]
    /\ js_only = FALSE
    /\ max_workers = PoolSize
    /\ RetryIdle
    /\ CliIdle
    /\ gen_files = [q \in QIds |-> NoFile]
    /\ GenInit
    /\ out_file = NoOutput
    /\ out_before = NoOutput
    /\ te_pc = "parse"
    /\ te_effects = {}
    /\ te_exc = NoException
    /\ cq_next = 1
    /\ rt_next = 1
    /\ t_futures = {}
    /\ tjob = [q \in QIds |-> NoTJob]
    /\ t_drained = {}
    /\ t_errored_out = <<>>
    /\ \E ex \in SUBSET Dirs, o1 \in ParseOutcomes, f \in [Dirs -> FewOutcomes] :
          /\ sb_exists = [d \in Dirs |-> d \in ex]
          /\ sb_outcome = [d \in Dirs |-> IF d \notin ex THEN NoOutcome
                                          ELSE IF d = 1 THEN o1 ELSE f[d]]
    /\ sb_impl = [d \in Dirs |-> NoFile]
    /\ sb_log = [d \in Dirs |-> NoFile]
    /\ sb_stdout = [d \in Dirs |-> NoFile]
    /\ sb_before = {d \in Dirs : sb_exists[d]}
    /\ pr_todo = {d \in Dirs : sb_exists[d]}
    /\ results = <<>>

ParseNext ==
    \/ \E d \in Dirs : PrScan(d)
    \/ PrFinish

SpecParse == ParseInit /\ [][ParseNext]_vars

\* calls of gpt_4o_mini_gen_function, the two stages at rest
RetryInit ==
    /\ lang = [q \in QIds |-> "python"]
    /\ js_only = FALSE
    /\ max_workers = PoolSize
    /\ RetryIdle
    /\ CliIdle
    /\ gen_files = [q \in QIds |-> NoFile]
    /\ GenInit
    /\ TestIdle
    /\ out_file = NoOutput
    /\ EmptySandboxes
    /\ sb_before = {}

RetryNext ==
    \/ GenFnCall
    \/ GenFnAttempt
    \/ GenFnRaise

SpecRetry == RetryInit /\ [][RetryNext]_vars

\* the command lines of display_results_csv.py and the directories they name
CliInputs ==
    {[dir |-> "missing", files |-> <<>>, csv |-> c, granular |-> g, split |-> sp,
      difficulty |-> df] :
        c \in BOOLEAN, g \in BOOLEAN, sp \in {"none", "test"}, df \in BOOLEAN}
    \cup
    {[dir |-> "file", files |-> <<>>, csv |-> c, granular |-> g, split |-> sp,
      difficulty |-> df] :
        c \in BOOLEAN, g \in BOOLEAN, sp \in {"none", "test"}, df \in BOOLEAN}
    \cup
    UNION {{[dir |-> "dir", files |-> f, csv |-> c, granular |-> g, split |-> sp,
             difficulty |-> df] :
               c \in BOOLEAN, g \in BOOLEAN, sp \in {"none", "test"},
               df \in BOOLEAN} :
           f \in UNION {[ms -> ResultFiles] : ms \in SUBSET Models}}

DisplayInit ==
    /\ lang = [q \in QIds |-> "python"]
    /\ js_only = FALSE
    /\ max_workers = PoolSize
    /\ RetryIdle
    /\ gen_files = [q \in QIds |-> NoFile]
    /\ GenInit
    /\ TestIdle
    /\ out_file = NoOutput
    /\ EmptySandboxes
    /\ sb_before = {}
    /\ cli_in \in CliInputs
    /\ cli_out = NoExit

DisplayNext == CliMain

SpecDisplay == DisplayInit /\ [][DisplayNext]_vars

GenNext ==
    \/ GfCall
    \/ GfSubmit
    \/ GfStartDrain
    \/ \E q \in QIds : JobStart(q)
    \/ \E q \in QIds : JobCheckExists(q)
    \/ \E q \in QIds : JobGenerate(q)
    \/ \E q \in QIds : JobWrite(q)
    \/ \E q \in QIds : GfDrain(q)
    \/ GfReturn
    \/ GfShutdown

SpecGen == Init /\ [][GenNext]_vars

\* a run of one of the two stages: calls of generate_files, or a call of
\* test_edits
StagesInit == Init \/ TestInit

StagesNext ==
    \/ te_pc = "idle" /\ GenNext
    \/ gf_pc = "idle" /\ TestNext

SpecStages == StagesInit /\ [][StagesNext]_vars

\* the script generate_and_run_experiment.py run without --test_only:
\* generate_files(..., max_workers=32) with more workers than tasks, then,
\* once it has returned, test_edits; js_only keeps its default in both
MainNext ==
    \/ gf_pc = "idle" /\ GfCall /\ js_only' = FALSE /\ max_workers' = PoolSize
    \/ GfSubmit
    \/ GfStartDrain
    \/ \E q \in QIds : JobStart(q)
    \/ \E q \in QIds : JobCheckExists(q)
    \/ \E q \in QIds : JobGenerate(q)
    \/ \E q \in QIds : JobWrite(q)
    \/ \E q \in QIds : GfDrain(q)
    \/ GfReturn
    \/ GfShutdown
    \/ gf_pc = "returned" /\ TeCall /\ js_only' = FALSE
    \/ CqStep
    \/ CqReturn
    \/ RtSubmit
    \/ RtStartDrain
    \/ \E q \in QIds : TStart(q)
    \/ \E q \in QIds : TOpenLog(q)
    \/ \E q \in QIds : TRunCommand(q)
    \/ \E q \in QIds : TFinish(q)
    \/ \E q \in QIds : RtDrain(q)
    \/ RtReturn
    \/ \E d \in Dirs : PrScan(d)
    \/ PrFinish

SpecMain == Init /\ [][MainNext]_vars

(***************************************************************************)
(* Helpers of the properties.                                              *)
(***************************************************************************)
Elems(s) == {s[i] : i \in 1..Len(s)}

GfEnded == gf_pc \in {"returned", "raised"}

(***************************************************************************)
(* Properties of the generation stage.                                     *)
(***************************************************************************)
\* C1: a task whose artifact exists when generate_files runs gets the job
\* result "skipped", its generation function is never called, and the file
\* keeps the content it had before the run, in every run.
C1_ExistingArtifactKept ==
    \A q \in QIds :
        gen_before[q] # NoFile =>
            /\ gen_files[q] = gen_before[q]
            /\ q \notin gen_called
            /\ job[q].pc = "done" => job[q].status = "skipped"
            /\ q \in drained => q \in Elems(skipped)

C1_Witness ==
    /\ gf_pc = "returned"
    /\ gf_runs = 2
    /\ \E q \in QIds : /\ gen_before[q] # NoFile
                        /\ job[q].status = "skipped"
                        /\ q \in Elems(skipped)
    /\ \E q \in QIds : job[q].status = "success"

\* C2: a job that raised is recorded by the coordinator under its key, every
\* other submitted job is drained and recorded, and the stage returns normally.
C2_RaisedJobIsolated ==
    (GfEnded /\ \E q \in futures_dict : job[q].status = "raised") =>
        /\ gf_pc = "returned"
        /\ drained = futures_dict
        /\ \A q \in futures_dict :
              job[q].status = "raised" => q \in Elems(errored_out)
        /\ Len(err_reason) = Len(errored_out)

\* C3: for a task without an artifact, an exception of the generation function
\* or of the write is caught in the job and becomes the result "error" with
\* the exception's message; once drained the task is in errored_out with that
\* message, and every submitted job has its own result when the stage ends.
C3_GenerationErrorCaught ==
    \A q \in QIds :
        /\ job[q].status = "raised" => q \notin gen_called
        /\ job[q].status = "error" =>
              /\ gen_before[q] = NoFile
              /\ q \in gen_called
              /\ job[q].error \in (IF job[q].text = NoFile THEN GenErrors
                                                            ELSE WriteErrors)
              /\ q \in drained =>
                    \E i \in 1..Len(errored_out) :
                        /\ errored_out[i] = q
                        /\ err_reason[i] = job[q].error
        /\ (q \in gen_called /\ GfEnded) =>
              /\ job[q].pc = "done"
              /\ job[q].status \in {"success", "unsupported_language", "error"}
              /\ \A r \in futures_dict : job[r].pc = "done"

C3_Witness ==
    /\ gf_pc = "returned"
    /\ \E q, r \in QIds :
          /\ job[q].status = "error"
          /\ job[q].error \in GenErrors
          /\ q \in Elems(errored_out)
          /\ job[r].status = "success"

(***************************************************************************)
(* Properties of the test stage and of the aggregation.                    *)
(***************************************************************************)
FailureMessages == {"Error installing dependencies", "failed running sandbox"}

Last(sq) == sq[Len(sq)]

\* C4: run_sandbox_test never lets an exception reach its worker: a job that
\* met an exception (no command list, a command that cannot start or times
\* out, a log that cannot be opened) returns a failure message and, when the
\* log could be opened, the log ends with the exception; no job is recorded
\* as errored, and once run_tests is over every submitted job was drained.
C4_SandboxJobNeverRaises ==
    /\ t_errored_out = <<>>
    /\ \A q \in QIds :
          tjob[q].pc = "done" =>
             /\ tjob[q].result \in FailureMessages \cup {"Ran tests"}
             /\ tjob[q].exc # "none" =>
                   /\ tjob[q].result \in FailureMessages
                   /\ tjob[q].exc # "OSError" =>
                         Last(sb_log[q]) = "EXCEPTION OCCURRED"
             /\ lang[q] \notin SupportedLangs => tjob[q].exc # "none"
    /\ te_pc \in {"parse", "returned"} =>
          /\ t_drained = t_futures
          /\ t_futures = {q \in QIds : ~(js_only /\ lang[q] = "python")}
          /\ \A q \in t_futures : tjob[q].pc = "done"

C4_Witness ==
    /\ te_pc = "parse"
    /\ \E q, r \in t_drained :
          /\ tjob[q].exc = "TimeoutExpired"
          /\ Last(sb_log[q]) = "EXCEPTION OCCURRED"
          /\ tjob[r].exc = "UnboundLocalError"
          /\ tjob[r].result = "failed running sandbox"

ScoreIs(r, num, den) == r[2] > 0 /\ r[1] * den = num * r[2]

\* C5: a sandbox whose test_results.json holds the counts of implementation1
\* is scored passed / (total + skipped), whatever its failed count, in the
\* results dict and in the output file.
C5_ScoreFormula ==
    \A d \in Dirs :
       sb_outcome[d].kind = "counts" =>
          LET o == sb_outcome[d]
          IN  /\ Key(d) \in DOMAIN results =>
                    ScoreIs(results[Key(d)], o.passed, o.total + o.skipped)
              /\ (out_file.exists /\ Key(d) \in DOMAIN out_file.data) =>
                    ScoreIs(out_file.data[Key(d)], o.passed, o.total + o.skipped)
              /\ (te_pc = "returned" /\ sb_exists[d]) =>
                    Key(d) \in DOMAIN out_file.data

\* the example of the claim: passed 3, failed 1, skipped 1, total 5 gives 0.5
C5_Witness ==
    /\ te_pc = "returned"
    /\ sb_outcome[1] = Counts(3, 1, 1, 5)
    /\ out_file.data[Key(1)] = <<1, 2>>

MissingKinds == {"absent", "nokey"}

\* C6: a sandbox with no test_results.json, or one without the expected
\* key, is scored 0.0; it never makes parse_results raise, and when
\* parse_results returns the output file holds a score for every sandbox.
C6_MissingOutcomeIsZero ==
    /\ \A d \in Dirs :
          (sb_exists[d] /\ sb_outcome[d].kind \in MissingKinds) =>
             /\ Key(d) \in DOMAIN results => results[Key(d)] = Zero
             /\ ~(te_pc = "raised" /\ te_exc.at = d)
             /\ d \in pr_todo \/ Key(d) \in DOMAIN results
    /\ te_pc = "returned" =>
          /\ out_file.exists
          /\ \A d \in Dirs : sb_exists[d] => Key(d) \in DOMAIN out_file.data
          /\ \A d \in Dirs :
                (sb_exists[d] /\ sb_outcome[d].kind \in MissingKinds) =>
                   out_file.data[Key(d)] = Zero

C6_Witness ==
    /\ te_pc = "returned"
    /\ \E d, e \in Dirs :
          /\ sb_exists[d] /\ sb_outcome[d].kind = "absent"
          /\ out_file.data[Key(d)] = Zero
          /\ sb_exists[e] /\ sb_outcome[e].kind = "counts"
          /\ out_file.data[Key(e)] # Zero

MalformedKinds == {"badjson", "notmap"}

\* C7: a malformed test_results.json (invalid JSON, or results that is not a
\* mapping) never makes parse_results raise, and its sandbox is scored 0.0.
C7_MalformedOutcomeNonFatal ==
    \A d \in Dirs :
       (sb_exists[d] /\ sb_outcome[d].kind \in MalformedKinds) =>
          /\ ~(te_pc = "raised" /\ te_exc.at = d)
          /\ te_pc = "returned" => out_file.data[Key(d)] = Zero

QuestionKeys(data) == {k \in DOMAIN data : k[1] = "question"}

\* C8 as stated: the output file written by test_edits holds an entry for every
\* task of the split and for nothing else.
C8_ExactlyTheSplit ==
    te_pc = "returned" =>
       QuestionKeys(out_file.data) = {Key(q) : q \in QIds}

\* C8, amended: the output file written by test_edits holds one entry for every
\* directory under the sandbox root and no other per-task entry; these are
\* the tasks of the split that js_only does not filter out and whatever
\* directories earlier runs left there.
C8_EntriesAreTheSandboxDirs ==
    te_pc = "returned" =>
       /\ out_file.exists
       /\ QuestionKeys(out_file.data) = {Key(d) : d \in {e \in Dirs : sb_exists[e]}}
       /\ \A q \in QIds :
             ~(js_only /\ lang[q] = "python") => Key(q) \in DOMAIN out_file.data

C8_Witness ==
    /\ te_pc = "returned"
    /\ js_only
    /\ \E d \in OtherSplitDirs : Key(d) \in DOMAIN out_file.data
    /\ \E q \in QIds : Key(q) \notin DOMAIN out_file.data
    /\ \E q \in QIds : Key(q) \in DOMAIN out_file.data

Scanned == {d \in Dirs : sb_exists[d]}

\* C9: with n >= 1 scanned sandboxes, pass_rate is the number of sandboxes
\* scored exactly 1.0 over n, and average_test_rate is the sum of the scores
\* over n; the two scalars are not among the n.
C9_SummaryStatistics ==
    te_pc = "returned" =>
       LET data == out_file.data
           n == Cardinality(Scanned)
           perfect == Cardinality({d \in Scanned : data[Key(d)] = One})
           total == SumRat([d \in Scanned |-> data[Key(d)]], Scanned)
       IN  /\ n >= 1
           /\ ScoreIs(data[PassRateKey], perfect, n)
           /\ ScoreIs(data[AverageKey], total[1], total[2] * n)
           /\ Cardinality(DOMAIN data) = n + Cardinality({PassRateKey, AverageKey})

\* the example of the claim: the scores 1.0 and 0.0 give 0.5 and 0.5
C9_Witness ==
    /\ te_pc = "returned"
    /\ \E d, e \in Dirs :
          /\ Scanned = {d, e}
          /\ d # e
          /\ out_file.data[Key(d)] = One
          /\ out_file.data[Key(e)] = Zero
    /\ out_file.data[PassRateKey] = <<1, 2>>
    /\ out_file.data[AverageKey] = <<1, 2>>

\* the output file has entries for at least 90% of the tasks of the split
Covers90(f) ==
    /\ f.exists
    /\ 10 * Cardinality({q \in QIds : Key(q) \in DOMAIN f.data}) >= 9 * NumQuestions

\* C10: when the output file exists at the call of test_edits and covers at
\* least 90% of the tasks of the split, test_edits returns at once: no
\* sandbox is built, no command runs, nothing is aggregated and the file is
\* as it was; so it is for a file with 90 to 100 task entries and the two
\* scalars, on a split of 100 tasks.
C10_ResumeShortCircuit ==
    /\ (te_pc # "idle" /\ Covers90(out_before)) =>
          /\ te_pc = "skipped"
          /\ te_effects = {}
          /\ out_file = out_before
          /\ t_futures = {} /\ cq_next = 1 /\ rt_next = 1 /\ results = <<>>
          /\ \A q \in QIds : tjob[q] = NoTJob
    /\ \A e \in 90..100 : AlreadyRun(e + 2, 100)

C10_Witness ==
    /\ te_pc = "skipped"
    /\ out_before = FullOutput
    /\ \E d \in Dirs : sb_exists[d]

(***************************************************************************)
(* Properties of create_question_folders.                                  *)
(***************************************************************************)
Filtered(q) == js_only /\ lang[q] = "python"

\* create_question_folders is over, by a return or by an exception
CqEnded == te_pc \notin {"idle", "skipped", "create"} \/ te_exc.type = "FileNotFoundError"

\* C11: when create_question_folders is over and meets a task without
\* artifact, every other task of the split that has an artifact (and a
\* supported language, and is not filtered by js_only) has its sandbox
\* directory with the implementation unwrapped from its artifact.
C11_MissingArtifactIsolated ==
    (CqEnded /\ \E q \in QIds : ~Filtered(q) /\ gen_files[q] = NoFile) =>
        \A r \in QIds :
            (~Filtered(r) /\ gen_files[r] # NoFile /\ lang[r] \in SupportedLangs) =>
                /\ sb_exists[r]
                /\ sb_impl[r] = Unwrap(gen_files[r], lang[r])

\* C12: a task whose language is not supported and that had no directory
\* under the sandbox root when test_edits began gets none: no directory, no
\* file in it, and no entry in the output file.
C12_UnsupportedBuildsNothing ==
    \A q \in QIds :
        (lang[q] \notin SupportedLangs /\ q \notin sb_before) =>
            /\ ~sb_exists[q]
            /\ sb_log[q] = NoFile
            /\ (te_pc = "returned" /\ out_file.exists) =>
                  Key(q) \notin DOMAIN out_file.data

\* the body of the first block of text opened with tag, stripped
FirstBlock(text, tag) ==
    LET occ == {i \in 1..Len(text) : text[i] = tag}
        first == CHOOSE i \in occ : \A j \in occ : i <= j
    IN  Strip(BeforeFirstFence(SubSeq(text, first + 1, Len(text))))

\* the loop of create_question_folders has written the files of task q
Populated(q) ==
    /\ te_pc \notin {"idle", "skipped"}
    /\ cq_next > q
    /\ ~Filtered(q)
    /\ lang[q] \in SupportedLangs

\* C13: the implementation file of a task whose artifact holds a block opened
\* with the tag of its language is the stripped body of the first such block.
C13_FirstBlockWritten ==
    \A q \in QIds :
        (Populated(q) /\ FenceTag(lang[q]) \in Elems(gen_files[q])) =>
            sb_impl[q] = FirstBlock(gen_files[q], FenceTag(lang[q]))

(***************************************************************************)
(* Properties of run_sandbox_test.                                         *)
(***************************************************************************)
IsPrefix(a, b) == Len(a) <= Len(b) /\ a = SubSeq(b, 1, Len(a))

StartFailures == {"TimeoutExpired", "FileNotFoundError"}

\* C14: the commands that have run are always the first ones of the list of
\* the language, in list order and once each; a command that exited nonzero
\* leaves the job going, and a job of a supported language whose log was
\* opened and none of whose commands timed out or failed to start ends with
\* all the commands of the list run, as its transcript shows.
C14_NonzeroExitDoesNotAbort ==
    \A q \in QIds :
        LET cmds == CommandsOf(lang[q])
        IN  /\ tjob[q].pc = "cmd" =>
                  Len(tjob[q].ran) < Len(cmds) /\ IsPrefix(tjob[q].ran, cmds)
            /\ tjob[q].pc = "finish" => tjob[q].ran = cmds
            /\ tjob[q].nonzero # 0 =>
                  /\ tjob[q].pc \in {"cmd", "finish"}
                  /\ tjob[q].nonzero <= Len(tjob[q].ran)
            /\ (/\ tjob[q].pc = "done"
                /\ lang[q] \in SupportedLangs
                /\ tjob[q].exc \notin StartFailures \cup {"OSError"}) =>
                  /\ tjob[q].result = "Ran tests"
                  /\ sb_stdout[q] = cmds

\* the first command exited nonzero and all the commands have run
C14_Witness ==
    \E q \in QIds :
        /\ tjob[q].pc = "finish"
        /\ tjob[q].nonzero = 1
        /\ tjob[q].ran = CommandsOf(lang[q])
        /\ Len(tjob[q].ran) > 1

\* C15 as stated: once a command has exited nonzero, no later command of the
\* pipeline runs.
C15_StopsOnNonzeroExit ==
    \A q \in QIds :
        tjob[q].nonzero # 0 => Len(tjob[q].ran) = tjob[q].nonzero

\* C15, amended: the pipeline stops at the first command that raises (it
\* times out or cannot be started): that step ends the job with a failure
\* message, and a job that has ended runs no command, writes no transcript
\* and no outcome afterwards; a command that returns, with whatever return
\* code, is followed by the next command of the list.
C15_StopsOnExceptionOnly ==
    [][\A q \in QIds :
          /\ (tjob[q].pc = "cmd" /\ tjob'[q].exc \in StartFailures) =>
                /\ tjob'[q].pc = "done"
                /\ tjob'[q].result \in FailureMessages
                /\ sb_stdout'[q] = sb_stdout[q]
          /\ tjob[q].pc = "done" =>
                /\ tjob'[q] = tjob[q]
                /\ sb_stdout'[q] = sb_stdout[q]
                /\ sb_outcome'[q] = sb_outcome[q]
          /\ (tjob[q].pc = "cmd" /\ tjob'[q] # tjob[q] /\ tjob'[q].exc = "none") =>
                /\ tjob'[q].pc \in {"cmd", "finish"}
                /\ Len(tjob'[q].ran) = Len(tjob[q].ran) + 1]_vars

\* the install command of one job timed out, which ended that job, while in
\* another job the first command exited nonzero and the others have run
C15_Witness ==
    \E q, r \in QIds :
        /\ tjob[q].pc = "done"
        /\ tjob[q].exc = "TimeoutExpired"
        /\ tjob[q].result = "Error installing dependencies"
        /\ tjob[r].pc = "finish"
        /\ tjob[r].nonzero = 1

\* C16: a job that has returned, after all its commands or after an
\* exception of one of them, has left a transcript of the commands that ran.
C16_TranscriptAlwaysWritten ==
    \A q \in QIds :
        (/\ tjob[q].pc = "done"
         /\ lang[q] \in SupportedLangs
         /\ tjob[q].exc \in StartFailures \cup {"none"}) =>
            IsPrefix(sb_stdout[q], CommandsOf(lang[q]))

\* C17: a task one of whose commands timed out is scored 0.0 in the output
\* file or is among the sandboxes run_tests recorded as errored.
C17_TimeoutMarkedFailed ==
    \A q \in QIds :
        (te_pc = "returned" /\ tjob[q].exc = "TimeoutExpired") =>
            \/ out_file.data[Key(q)] = Zero
            \/ q \in Elems(t_errored_out)

(***************************************************************************)
(* Properties of gpt_4o_mini_gen_function.                                 *)
(***************************************************************************)
Failed(i) == calls[i] \in ApiErrors

\* C19: the API is called at most max_retries times in an invocation; the
\* function returns at the first call that succeeds and calls no more; it
\* raises only after max_retries failed calls, and what it raises is the
\* exception of the last of them.
C19_RetryBound ==
    /\ Len(calls) <= max_retries
    /\ \A i \in 1..(Len(calls) - 1) : Failed(i)
    /\ gen_pc = "loop" => (gen_ret = NoReturn /\ \A i \in 1..Len(calls) : Failed(i))
    /\ gen_pc = "returned" =>
          /\ gen_ret.kind = "returned"
          /\ Last(calls) = "ok"
    /\ gen_pc = "raised" =>
          /\ gen_ret.kind = "raised"
          /\ Len(calls) = max_retries
          /\ \A i \in 1..Len(calls) : Failed(i)
          /\ gen_ret.value = <<calls[max_retries]>>

\* five failed calls, the last with another exception than the four before
C19_Witness ==
    /\ gen_pc = "raised"
    /\ Len(calls) = 5
    /\ \A i \in 1..4 : calls[i] = "RateLimitError"
    /\ gen_ret.value = <<"APIConnectionError">>

(***************************************************************************)
(* Properties of the two worker pools.                                     *)
(***************************************************************************)
Submittable == {q \in QIds : ~Filtered(q)}

\* C18: in generate_files and in run_tests, at most max_workers jobs run at
\* the same time; every job is submitted before the first future is
\* drained; and a job that has finished can be drained while others run.
C18_BoundedConcurrency ==
    /\ Cardinality(RunningJobs) <= max_workers
    /\ Cardinality(RunningTJobs) <= max_workers
    /\ (gf_pc \in {"drain", "shutdown", "returned", "raised"} \/ drained # {}) =>
          futures_dict = Submittable
    /\ (te_pc \in {"drain", "parse", "returned"} \/ t_drained # {}) =>
          t_futures = Submittable
    /\ \A q \in QIds :
          /\ (gf_pc = "drain" /\ q \in futures_dict \ drained /\ job[q].pc = "done")
                => ENABLED GfDrain(q)
          /\ (te_pc = "drain" /\ q \in t_futures \ t_drained /\ tjob[q].pc = "done")
                => ENABLED RtDrain(q)

\* a pool of one worker: the second job waited for it, and runs while the
\* first has already been drained
C18_Witness ==
    /\ gf_pc = "drain"
    /\ max_workers = 1
    /\ \E q, r \in QIds :
          /\ q \in drained
          /\ JobRunning(r)
          /\ Cardinality(RunningJobs) = max_workers

StatusIn(S) == {q \in futures_dict : job[q].status \in S}

NoDuplicates(sq) == Cardinality(Elems(sq)) = Len(sq)

\* the scores parse_results computes from the outcome files under TEST_DIR
ScoresOfDirs ==
    [k \in {Key(d) : d \in Scanned} |-> ScoreOf(sb_outcome[k[2]]).score]

\* C20: when generate_files returns, its three lists hold, in some order,
\* the submitted tasks whose job had the matching result, whatever the order
\* in which the jobs completed; a job is skipped exactly when its artifact
\* existed; and the file parse_results writes is the summary of the scores
\* of the outcome files, keyed by directory.
C20_CompletionOrderIndependent ==
    /\ gf_pc = "returned" =>
          /\ futures_dict = Submittable
          /\ Elems(successful) = StatusIn({"success"})
          /\ Elems(skipped) = StatusIn({"skipped"})
          /\ Elems(errored_out) = StatusIn({"error", "raised"})
          /\ NoDuplicates(successful) /\ NoDuplicates(skipped)
          /\ NoDuplicates(errored_out)
          /\ StatusIn({"skipped"}) = {q \in futures_dict : gen_before[q] # NoFile}
    /\ te_pc = "returned" => out_file.data = Summary(ScoresOfDirs)

\* the second task completed, and was drained, before the first
C20_Witness ==
    /\ gf_pc = "returned"
    /\ successful = <<2, 1>>

RECURSIVE SumSeq(_)
SumSeq(sq) == IF sq = <<>> THEN 0 ELSE sq[1] + SumSeq(Tail(sq))

Failures == Cardinality({i \in 1..Len(calls) : Failed(i)})

C23_EveryJobAccounted ==
    gf_pc = "returned" =>
        /\ \A q \in futures_dict :
              Cardinality({l \in {"successful", "skipped", "errored_out"} :
                  q \in Elems(CASE l = "successful" -> successful
                                 [] l = "skipped" -> skipped
                                 [] OTHER -> errored_out)}) = 1
        /\ Len(successful) + Len(skipped) + Len(errored_out)
              = Cardinality(futures_dict)

\* C25: a sandbox whose outcome file holds counts with passed <= total never
\* makes parse_results raise, and its score, like pass_rate and
\* average_test_rate, lies between 0 and 1.
C25_ScoreRange ==
    /\ \A d \in Dirs :
          (sb_exists[d] /\ sb_outcome[d] \in WellFormed) =>
              /\ ~(te_pc = "raised" /\ te_exc.at = d)
              /\ Key(d) \in DOMAIN results =>
                    LeqRat(Zero, results[Key(d)]) /\ LeqRat(results[Key(d)], One)
    /\ te_pc = "returned" =>
          \A k \in {PassRateKey, AverageKey} :
              LeqRat(Zero, out_file.data[k]) /\ LeqRat(out_file.data[k], One)

\* C26: when the output file found by test_edits holds entries for fewer than
\* 90% of the tasks of the split, test_edits does not return at once.
C26_SkipOnlyWhenCovered ==
    (te_pc # "idle" /\ out_before.exists /\ ~Covers90(out_before)) =>
        te_pc # "skipped"

\* C27: a task whose pipeline ended at the install command, before any test
\* command could write an outcome file, is scored 0.0 by that run.
C27_NoStaleOutcome ==
    \A q \in QIds :
        (te_pc = "returned" /\ tjob[q].result = "Error installing dependencies") =>
            out_file.data[Key(q)] = Zero

\* C24: no job of run_tests has started before create_question_folders went
\* through the whole split; parse_results reads outcome files only when
\* every submitted sandbox job has returned and was drained; and in the
\* script, test_edits begins only when generate_files has returned, with
\* every generation job finished and drained.
C24_StageOrdering ==
    /\ \A q \in QIds :
          tjob[q].pc # "none" =>
              /\ cq_next > NumQuestions
              /\ te_pc \in {"submit", "drain", "parse", "returned", "raised"}
    /\ (te_pc = "parse" \/ "parse" \in te_effects) =>
          /\ t_drained = t_futures
          /\ \A q \in QIds : tjob[q].pc \in {"none", "done"}
    /\ te_pc # "idle" =>
          /\ gf_pc = "returned"
          /\ drained = futures_dict
          /\ \A q \in QIds : job[q].pc \in {"none", "done"}

\* the whole script ran: an artifact was generated and then tested
C24_Witness ==
    /\ gf_pc = "returned"
    /\ te_pc = "returned"
    /\ \E q \in QIds :
          /\ job[q].status = "success"
          /\ tjob[q].result = "Ran tests"
    /\ \E q \in QIds : tjob[q].exc = "TimeoutExpired"

(***************************************************************************)
(* Properties of display_results_csv.                                      *)
(***************************************************************************)
Loadable(a) ==
    /\ a.dir = "dir"
    /\ DOMAIN a.files # {}
    /\ \A m \in DOMAIN a.files : a.files[m].kind = "dict"

\* C21: main() returns 1 when the directory is missing, is not a directory
\* or holds no JSON file, and returns 0 when it holds result files that load
\* as mappings, whatever the options.
C21_ExitCodes ==
    cli_out # NoExit =>
        /\ (cli_in.dir # "dir" \/ DOMAIN cli_in.files = {}) => cli_out = Returned(1)
        /\ Loadable(cli_in) => cli_out = Returned(0)

====
